---- MODULE Spec2Model ----
(***************************************************************************)
(* chatbot.py: a Streamlit script that provisions a vector store and an    *)
(* assistant at the provider (memoised, persisted in config.json), runs a  *)
(* chat session over a provider thread, and manages the vector store's     *)
(* files from a sidebar.                                                   *)
(*                                                                         *)
(* File names and extensions are sequences of one-character strings, so    *)
(* that Path.suffix and str.lower are computed, not assumed.               *)
(* Provider identifiers are positive numbers: the n-th object of a kind    *)
(* the provider creates has id n.  0 stands for "no identifier" (a key     *)
(* missing from the config, None).                                         *)
(***************************************************************************)
EXTENDS Integers, Sequences, FiniteSets, TLC

\* ------------------------------------------------------------------ bounds
MaxFiles == 3
MaxRuns == 3
MaxMsgs == 3
MaxClicks == 3

\* ------------------------------------------------------- names, extensions
UpperCase == <<"A","B","C","D","E","F","G","H","I","J","K","L","M",
               "N","O","P","Q","R","S","T","U","V","W","X","Y","Z">>
LowerCase == <<"a","b","c","d","e","f","g","h","i","j","k","l","m",
               "n","o","p","q","r","s","t","u","v","w","x","y","z">>

\* str.lower() of one character
LowerChar(c) ==
    IF \E i \in DOMAIN UpperCase : UpperCase[i] = c
    THEN LowerCase[CHOOSE i \in DOMAIN UpperCase : UpperCase[i] = c]
    ELSE c

\* str.lower()
Lower(s) == [i \in DOMAIN s |-> LowerChar(s[i])]

\* str.rfind("."), 1-based; 0 when there is no dot
LastDot(name) ==
    IF \E i \in DOMAIN name : name[i] = "."
    THEN CHOOSE i \in DOMAIN name :
            name[i] = "." /\ \A j \in DOMAIN name : name[j] = "." => j <= i
    ELSE 0

\* Path.suffix: the part from the last dot on, unless the dot leads or ends
\* the name
Suffix(name) ==
    IF 1 < LastDot(name) /\ LastDot(name) < Len(name)
    THEN SubSeq(name, LastDot(name), Len(name))
    ELSE <<>>

SUPPORTED_EXTENSIONS ==
    { <<".","c">>, <<".","c","p","p">>, <<".","c","s","s">>, <<".","c","s","v">>,
      <<".","d","o","c">>, <<".","d","o","c","x">>, <<".","g","i","f">>,
      <<".","g","o">>, <<".","h","t","m","l">>, <<".","j","a","v","a">>,
      <<".","j","p","e","g">>, <<".","j","p","g">>, <<".","j","s">>,
      <<".","j","s","o","n">>, <<".","m","d">>, <<".","p","d","f">>,
      <<".","p","h","p">>, <<".","p","k","l">>, <<".","p","n","g">>,
      <<".","p","p","t","x">>, <<".","p","y">>, <<".","r","b">>,
      <<".","t","a","r">>, <<".","t","e","x">>, <<".","t","s">>,
      <<".","t","x","t">>, <<".","w","e","b","p">>, <<".","x","l","s","x">>,
      <<".","x","m","l">>, <<".","z","i","p">> }

ALLOWED_EXTENSIONS ==
    { <<".","p","d","f">>, <<".","t","x","t">>, <<".","m","d">>,
      <<".","d","o","c","x">>, <<".","c","s","v">>, <<".","x","l","s","x">> }

\* the test of line 42 with the case folding left out
IsSupportedCaseSensitive(name) == Suffix(name) \in SUPPORTED_EXTENSIONS

\* file_path.suffix.lower() in SUPPORTED_EXTENSIONS
IsSupported(name) == Lower(Suffix(name)) \in SUPPORTED_EXTENSIONS

\* The entries a folder may hold: a.pdf, b.xyz, c.md, D.PDF, .txt (a hidden
\* file, no suffix), t.tar.gz (suffix .gz) and n (no suffix).
FolderNames ==
    { <<"a",".","p","d","f">>, <<"b",".","x","y","z">>, <<"c",".","m","d">>,
      <<"D",".","P","D","F">>, <<".","t","x","t">>,
      <<"t",".","t","a","r",".","g","z">>, <<"n">> }

\* ------------------------------------------------------------------ config
NoId == 0
VS_KEY == "vector_store_id"
AS_KEY == "assistant_id"
EmptyConfig == [k \in {} |-> NoId]

\* dict.get(key): None (NoId) for a missing key
Get(cfg, k) == IF k \in DOMAIN cfg THEN cfg[k] ELSE NoId

\* config[key] = value
Put(cfg, k, v) == [x \in (DOMAIN cfg) \cup {k} |-> IF x = k THEN v ELSE cfg[x]]

\* config.get(key) is truthy
HasId(cfg, k) == Get(cfg, k) # NoId

\* load_config with the existence test the wrong way round
load_config_inverted(file) == IF ~file.exists THEN file.content ELSE EmptyConfig

\* load_config(): {} when the file does not exist
load_config(file) == IF file.exists THEN file.content ELSE EmptyConfig

\* a save that leaves the file as it was
save_config_lost(file, cfg) == file

\* save_config(config): the file is overwritten wholesale
save_config(file, cfg) == [exists |-> TRUE, content |-> cfg]

VARIABLES
    \* ---- provisioning
    folder,          \* Path(FOLDER_PATH).glob("*"), in the order it yields
    disk,            \* config.json: [exists, content]
    pPc,             \* "idle" | "scan" | "assistant" | "cached" | "raised"
    config,          \* the local config of initialize_assistant_and_vector_store
    file_ids,        \* the local file_ids of the indexing pass
    idx,             \* position of the for loop in folder
    vs_id,           \* the local vs_id
    result,          \* the memoised return value <<assistant_id, vs_id>>
    files,           \* provider file storage: files[id] is the filename
    vstores,         \* provider vector stores: vstores[id] is its file ids
    assistants,      \* provider assistants: assistants[id] is its vector store
    \* ---- provisioning, history
    runs,            \* calls of initialize_assistant_and_vector_store so far
    passCalls,       \* files.create calls of this call, per folder position
    skipLog,         \* "Skipped unsupported file" lines of this call
    runCalls,        \* remote calls of this call, per kind
    totalCalls,      \* create calls ever made, per kind
    failedCalls,     \* create calls that raised, per kind
    passFault,       \* the call that raised in this call: "none" | ...
    startDisk,       \* config.json when this call started
    \* ---- conversation session
    has_thread,      \* "thread_id" in st.session_state
    chat_history,    \* st.session_state.chat_history
    thread,          \* the provider thread's messages, oldest first
    cPc,             \* "Idle" | "AwaitingRun"
    runStatus,       \* the provider's status of the latest run
    lastPoll,        \* what runs.retrieve last returned for this run
    fault,           \* the call that raised in the last script run, or "none"
    \* ---- conversation session, history
    inputs,          \* the messages submitted so far, in order
    turnSub,         \* per turn of chat_history, the submission it belongs to
    outcome,         \* per submission: "awaiting" | "answered" | "raised"
    stepCalls,       \* remote calls made for the latest submission, per step
    \* ---- file manager
    upload_key,      \* st.session_state["upload_key"] (0 when absent)
    widget,          \* the file_uploader the user filled: [key, files]
    button,          \* the file whose delete button was clicked, or NoId
    fPc,             \* "Idle" | "Run" (a script run is due) | "Rerun" (st.rerun)
    ffault,          \* the call that raised in the last script run, or "none"
    \* ---- file manager, history
    lastOp,          \* the handler that forced the rerun: "upload" | ...
    uploadCalls,     \* upload_and_poll calls made
    lastBatch,       \* the latest of them: [selection, names]
    deleteCalls,     \* vector_stores.files.delete calls made
    lastDelete,      \* the latest of them: [vs, file]
    clicks,          \* interactions of the user with the sidebar
    selections,      \* those that were selections in the uploader
    handled,         \* times the upload handler reached its st.rerun()
    uploadRaised     \* whether upload_and_poll has ever raised

provVars == <<folder, disk, pPc, config, file_ids, idx, vs_id, result, files,
              vstores, assistants, runs, passCalls, skipLog, runCalls,
              totalCalls, failedCalls, passFault, startDisk>>

chatVars == <<has_thread, chat_history, thread, cPc, runStatus, lastPoll,
              fault, inputs, turnSub, outcome, stepCalls>>

fmVars == <<upload_key, widget, button, fPc, ffault, lastOp, uploadCalls,
            lastBatch, deleteCalls, lastDelete, clicks, selections, handled,
            uploadRaised>>

vars == <<provVars, chatVars, fmVars>>

Kinds == {"upload", "vs_create", "assistant_create", "assistant_retrieve"}
NoCalls == [k \in Kinds |-> 0]
Bump(f, k) == [f EXCEPT ![k] = @ + 1]

\* sequences over S without repetition, of length at most n
RECURSIVE Arrangements(_, _)
Arrangements(S, n) ==
    IF n = 0 THEN { <<>> }
    ELSE LET shorter == Arrangements(S, n - 1)
             longer == { Append(s, x) : s \in shorter, x \in S }
             distinct(t) == \A i, j \in DOMAIN t : i < j => t[i] # t[j]
         IN shorter \cup { t \in longer : distinct(t) }


\* ============================================================ provisioning
otherThanProv == <<chatVars, fmVars>>

\* a session whose first script run is over: thread created, empty history
SessionStarted ==
    /\ has_thread = TRUE
    /\ chat_history = <<>>
    /\ thread = <<>>
    /\ cPc = "Idle"
    /\ runStatus = "none"
    /\ lastPoll = "none"
    /\ fault = "none"
    /\ inputs = <<>>
    /\ turnSub = <<>>
    /\ outcome = <<>>
    /\ stepCalls = [send |-> 0, run |-> 0, fetch |-> 0]

\* no browser session yet
NoSession ==
    /\ has_thread = FALSE
    /\ chat_history = <<>>
    /\ thread = <<>>
    /\ cPc = "Idle"
    /\ runStatus = "none"
    /\ lastPoll = "none"
    /\ fault = "none"
    /\ inputs = <<>>
    /\ turnSub = <<>>
    /\ outcome = <<>>
    /\ stepCalls = [send |-> 0, run |-> 0, fetch |-> 0]

\* the sidebar before any interaction
SidebarUntouched ==
    /\ upload_key = 0
    /\ widget = [key |-> 0, files |-> <<>>]
    /\ button = NoId
    /\ fPc = "Idle"
    /\ ffault = "none"
    /\ lastOp = "none"
    /\ uploadCalls = 0
    /\ lastBatch = [selection |-> <<>>, names |-> <<>>]
    /\ deleteCalls = 0
    /\ lastDelete = [vs |-> NoId, file |-> NoId]
    /\ clicks = 0
    /\ selections = 0
    /\ handled = 0
    /\ uploadRaised = FALSE

ProvInit ==
    /\ NoSession
    /\ SidebarUntouched
    /\ folder \in Arrangements(FolderNames, MaxFiles)
    /\ disk = [exists |-> FALSE, content |-> EmptyConfig]
    /\ pPc = "idle"
    /\ config = EmptyConfig
    /\ file_ids = <<>>
    /\ idx = 1
    /\ vs_id = NoId
    /\ result = <<NoId, NoId>>
    /\ files = <<>>
    /\ vstores = <<>>
    /\ assistants = <<>>
    /\ runs = 0
    /\ passCalls = [i \in DOMAIN folder |-> 0]
    /\ skipLog = <<>>
    /\ runCalls = NoCalls
    /\ totalCalls = NoCalls
    /\ failedCalls = NoCalls
    /\ passFault = "none"
    /\ startDisk = [exists |-> FALSE, content |-> EmptyConfig]

\* A remote call of kind k that raised: counted, and the call of
\* initialize_assistant_and_vector_store ends with the exception.
Raise(k) ==
    /\ runCalls' = Bump(runCalls, k)
    /\ totalCalls' = Bump(totalCalls, k)
    /\ failedCalls' = Bump(failedCalls, k)
    /\ passFault' = k
    /\ pPc' = "raised"

Called(k) ==
    /\ runCalls' = Bump(runCalls, k)
    /\ totalCalls' = Bump(totalCalls, k)
    /\ UNCHANGED <<failedCalls, passFault>>

\* The script calls initialize_assistant_and_vector_store and nothing is
\* memoised (first run of the process, or the previous call raised):
\* load_config and the vector-store presence-check.
InitializeStart ==
    /\ pPc \in {"idle", "raised"}
    /\ runs < MaxRuns
    /\ runs' = runs + 1
    /\ config' = load_config(disk)
    /\ IF ~HasId(config', VS_KEY)
       THEN pPc' = "scan" /\ vs_id' = NoId
       ELSE pPc' = "assistant" /\ vs_id' = config'[VS_KEY]
    /\ file_ids' = <<>>
    /\ idx' = 1
    /\ passCalls' = [i \in DOMAIN folder |-> 0]
    /\ skipLog' = <<>>
    /\ runCalls' = NoCalls
    /\ passFault' = "none"
    /\ startDisk' = disk
    /\ UNCHANGED <<folder, disk, result, files, vstores, assistants,
                   totalCalls, failedCalls>>
    /\ UNCHANGED otherThanProv

\* the upload that reports the failure and goes on with the next entry
UploadFileSwallowed ==
    /\ pPc = "scan"
    /\ idx <= Len(folder)
    /\ IsSupported(folder[idx])
    /\ passCalls' = [passCalls EXCEPT ![idx] = @ + 1]
    /\ runCalls' = Bump(runCalls, "upload")
    /\ totalCalls' = Bump(totalCalls, "upload")
    /\ failedCalls' = Bump(failedCalls, "upload")
    /\ passFault' = "upload"
    /\ idx' = idx + 1
    /\ UNCHANGED <<folder, disk, pPc, config, file_ids, vs_id, result, files,
                   vstores, assistants, runs, skipLog, startDisk>>
    /\ UNCHANGED otherThanProv

\* One iteration of the for loop on a supported entry: files.create succeeds.
UploadFile ==
    /\ pPc = "scan"
    /\ idx <= Len(folder)
    /\ IsSupported(folder[idx])
    /\ files' = Append(files, folder[idx])
    /\ file_ids' = Append(file_ids, Len(files) + 1)
    /\ passCalls' = [passCalls EXCEPT ![idx] = @ + 1]
    /\ Called("upload")
    /\ idx' = idx + 1
    /\ UNCHANGED <<folder, disk, pPc, config, vs_id, result, vstores,
                   assistants, runs, skipLog, startDisk>>
    /\ UNCHANGED otherThanProv

\* The same iteration when open() or files.create raises: nothing catches it.
UploadFileRaises ==
    /\ pPc = "scan"
    /\ idx <= Len(folder)
    /\ IsSupported(folder[idx])
    /\ passCalls' = [passCalls EXCEPT ![idx] = @ + 1]
    /\ Raise("upload")
    /\ UNCHANGED <<folder, disk, config, file_ids, idx, vs_id, result, files,
                   vstores, assistants, runs, skipLog, startDisk>>
    /\ UNCHANGED otherThanProv

\* One iteration on an unsupported entry: the skip line, no remote call.
SkipFile ==
    /\ pPc = "scan"
    /\ idx <= Len(folder)
    /\ ~IsSupported(folder[idx])
    /\ skipLog' = Append(skipLog, folder[idx])
    /\ idx' = idx + 1
    /\ UNCHANGED <<folder, disk, pPc, config, file_ids, vs_id, result, files,
                   vstores, assistants, runs, passCalls, runCalls, totalCalls,
                   failedCalls, passFault, startDisk>>
    /\ UNCHANGED otherThanProv

\* After the loop: vector_stores.create(file_ids), then the caller stores the
\* id in the config and saves it.
CreateVectorStore ==
    /\ pPc = "scan"
    /\ idx > Len(folder)
    /\ vstores' = Append(vstores, file_ids)
    /\ vs_id' = Len(vstores) + 1
    /\ config' = Put(config, VS_KEY, vs_id')
    /\ disk' = save_config(disk, config')
    /\ Called("vs_create")
    /\ pPc' = "assistant"
    /\ UNCHANGED <<folder, file_ids, idx, result, files, assistants, runs,
                   passCalls, skipLog, startDisk>>
    /\ UNCHANGED otherThanProv

CreateVectorStoreRaises ==
    /\ pPc = "scan"
    /\ idx > Len(folder)
    /\ Raise("vs_create")
    /\ UNCHANGED <<folder, disk, config, file_ids, idx, vs_id, result, files,
                   vstores, assistants, runs, passCalls, skipLog, startDisk>>
    /\ UNCHANGED otherThanProv

\* No assistant_id in the config: assistants.create bound to vs_id, the id is
\* stored and saved, and the function returns.
CreateAssistant ==
    /\ pPc = "assistant"
    /\ ~HasId(config, AS_KEY)
    /\ assistants' = Append(assistants, vs_id)
    /\ config' = Put(config, AS_KEY, Len(assistants) + 1)
    /\ disk' = save_config(disk, config')
    /\ result' = <<Len(assistants) + 1, vs_id>>
    /\ Called("assistant_create")
    /\ pPc' = "cached"
    /\ UNCHANGED <<folder, file_ids, idx, vs_id, files, vstores, runs,
                   passCalls, skipLog, startDisk>>
    /\ UNCHANGED otherThanProv

CreateAssistantRaises ==
    /\ pPc = "assistant"
    /\ ~HasId(config, AS_KEY)
    /\ Raise("assistant_create")
    /\ UNCHANGED <<folder, disk, config, file_ids, idx, vs_id, result, files,
                   vstores, assistants, runs, passCalls, skipLog, startDisk>>
    /\ UNCHANGED otherThanProv

\* An assistant_id in the config: assistants.retrieve, and the function
\* returns the id of what it retrieved.
RetrieveAssistant ==
    /\ pPc = "assistant"
    /\ HasId(config, AS_KEY)
    /\ config[AS_KEY] \in DOMAIN assistants
    /\ result' = <<config[AS_KEY], vs_id>>
    /\ Called("assistant_retrieve")
    /\ pPc' = "cached"
    /\ UNCHANGED <<folder, disk, config, file_ids, idx, vs_id, files, vstores,
                   assistants, runs, passCalls, skipLog, startDisk>>
    /\ UNCHANGED otherThanProv

RetrieveAssistantRaises ==
    /\ pPc = "assistant"
    /\ HasId(config, AS_KEY)
    /\ Raise("assistant_retrieve")
    /\ UNCHANGED <<folder, disk, config, file_ids, idx, vs_id, result, files,
                   vstores, assistants, runs, passCalls, skipLog, startDisk>>
    /\ UNCHANGED otherThanProv

\* A re-render of the script once the function has returned:
\* st.cache_resource hands back the stored value, the body does not run.
CachedRerun ==
    /\ pPc = "cached"
    /\ UNCHANGED provVars
    /\ UNCHANGED otherThanProv

\* The server process ends and a new one starts: the memoised value and the
\* locals are gone, config.json and the provider's objects stay.
ProcessRestart ==
    /\ pPc \in {"cached", "raised"}
    /\ pPc' = "idle"
    /\ config' = EmptyConfig
    /\ file_ids' = <<>>
    /\ idx' = 1
    /\ vs_id' = NoId
    /\ result' = <<NoId, NoId>>
    /\ UNCHANGED <<folder, disk, files, vstores, assistants, runs, passCalls,
                   skipLog, runCalls, totalCalls, failedCalls, passFault,
                   startDisk>>
    /\ UNCHANGED otherThanProv

ProvNext ==
    \/ InitializeStart
    \/ UploadFile
    \/ UploadFileRaises
    \/ SkipFile
    \/ CreateVectorStore
    \/ CreateVectorStoreRaises
    \/ CreateAssistant
    \/ CreateAssistantRaises
    \/ RetrieveAssistant
    \/ RetrieveAssistantRaises
    \/ CachedRerun
    \/ ProcessRestart

ProvSpec == ProvInit /\ [][ProvNext]_vars


\* ---------------------------------------------------- provisioning, claims
\* The call of initialize_assistant_and_vector_store in progress (or just
\* ended) found no vector_store_id in config.json, so it runs an indexing pass.
IndexingRun ==
    /\ pPc \in {"scan", "assistant", "cached", "raised"}
    /\ Get(startDisk.content, VS_KEY) = NoId

SupportedExt(name) == Lower(Suffix(name)) \in SUPPORTED_EXTENSIONS
UnsupportedExt(name) == Lower(Suffix(name)) \notin SUPPORTED_EXTENSIONS

\* the entries the for loop has dealt with
Scanned == SubSeq(folder, 1, idx - 1)

\* the filenames, in provider storage, of the handles collected so far
HandleNames == [k \in DOMAIN file_ids |-> files[file_ids[k]]]

\* C1: in one indexing pass every entry whose lowercased extension is in
\* SUPPORTED_EXTENSIONS is uploaded by exactly one files.create call, every
\* other entry gets one skip line and no remote call, and the vector store is
\* then created by a single call with exactly the handles of the uploaded
\* entries.
C1_UploadedIffSupported ==
    IndexingRun =>
        /\ \A i \in 1..(idx - 1) :
              passCalls[i] = IF SupportedExt(folder[i]) THEN 1 ELSE 0
        /\ \A i \in idx..Len(folder) :
              passCalls[i] = IF i = idx /\ passFault = "upload" THEN 1 ELSE 0
        /\ skipLog = SelectSeq(Scanned, UnsupportedExt)
        /\ \A k \in DOMAIN file_ids : file_ids[k] \in DOMAIN files
        /\ HandleNames = SelectSeq(Scanned, SupportedExt)
        /\ Cardinality({file_ids[k] : k \in DOMAIN file_ids}) = Len(file_ids)
        /\ runCalls["upload"] =
              Len(file_ids) + (IF passFault = "upload" THEN 1 ELSE 0)
        /\ (pPc = "scan" \/ passFault = "upload") => runCalls["vs_create"] = 0
        /\ (pPc \in {"assistant", "cached"}
              \/ passFault \in {"assistant_create", "assistant_retrieve"}) =>
              /\ idx = Len(folder) + 1
              /\ runCalls["vs_create"] = 1
              /\ vs_id \in DOMAIN vstores
              /\ vstores[vs_id] = file_ids

\* a.pdf, b.xyz, c.md: 2 uploads, 1 skip, one vector store with 2 handles
C1_Witness ==
    /\ folder = << <<"a",".","p","d","f">>, <<"b",".","x","y","z">>,
                   <<"c",".","m","d">> >>
    /\ pPc = "cached"
    /\ runs = 1
    /\ files = << <<"a",".","p","d","f">>, <<"c",".","m","d">> >>
    /\ skipLog = << <<"b",".","x","y","z">> >>
    /\ vstores = << <<1, 2>> >>
    /\ Get(disk.content, VS_KEY) = 1

\* C2: a call of initialize_assistant_and_vector_store that finds both
\* identifiers in config.json makes no creation call (no upload, no
\* vector-store create, no assistant create), one assistant retrieve call,
\* leaves config.json as it was, and returns the stored identifiers.
C2_ProvisionedIsIdempotent ==
    ( /\ pPc \in {"assistant", "cached", "raised"}
      /\ startDisk.exists
      /\ Get(startDisk.content, VS_KEY) # NoId
      /\ Get(startDisk.content, AS_KEY) # NoId ) =>
        /\ runCalls["upload"] = 0
        /\ runCalls["vs_create"] = 0
        /\ runCalls["assistant_create"] = 0
        /\ disk = startDisk
        /\ runCalls["assistant_retrieve"] = IF pPc = "assistant" THEN 0 ELSE 1
        /\ pPc = "cached" =>
              result = <<startDisk.content[AS_KEY], startDisk.content[VS_KEY]>>

\* a second process finds both identifiers and has returned
C2_Witness ==
    /\ pPc = "cached"
    /\ runs >= 2
    /\ Get(startDisk.content, VS_KEY) # NoId
    /\ Get(startDisk.content, AS_KEY) # NoId
    /\ runCalls["assistant_retrieve"] = 1
    /\ Len(files) >= 1

C8_IndexingFailureAborts ==
    passFault \in {"upload", "vs_create"} =>
        /\ pPc \in {"raised", "idle"}
        /\ vstores = <<>>
        /\ assistants = <<>>
        /\ disk = startDisk
        /\ Get(load_config(disk), VS_KEY) = NoId
        /\ Get(load_config(disk), AS_KEY) = NoId
        /\ runCalls["assistant_create"] = 0
        /\ runCalls["vs_create"] = IF passFault = "vs_create" THEN 1 ELSE 0
        /\ \A i \in DOMAIN folder : passCalls[i] <= 1
        /\ pPc = "raised" =>
              /\ \A k \in DOMAIN file_ids : file_ids[k] \in DOMAIN files
              /\ HandleNames = SelectSeq(Scanned, SupportedExt)
              /\ passFault = "upload" => idx <= Len(folder) /\ passCalls[idx] = 1

\* the second supported file fails, the first stays uploaded
C8_Witness ==
    /\ passFault = "upload"
    /\ pPc = "raised"
    /\ Len(file_ids) >= 1
    /\ Len(files) >= 1
    /\ vstores = <<>>


\* ==================================================== conversation session
\* The deployment after a first provisioning of a folder a.pdf, b.xyz, c.md:
\* both identifiers in config.json, the function's value memoised.
Provisioned ==
    /\ folder = << <<"a",".","p","d","f">>, <<"b",".","x","y","z">>,
                   <<"c",".","m","d">> >>
    /\ disk = [exists |-> TRUE,
               content |-> Put(Put(EmptyConfig, VS_KEY, 1), AS_KEY, 1)]
    /\ pPc = "cached"
    /\ config = Put(Put(EmptyConfig, VS_KEY, 1), AS_KEY, 1)
    /\ file_ids = <<1, 2>>
    /\ idx = 4
    /\ vs_id = 1
    /\ result = <<1, 1>>
    /\ files = << <<"a",".","p","d","f">>, <<"c",".","m","d">> >>
    /\ vstores = << <<1, 2>> >>
    /\ assistants = <<1>>
    /\ runs = 1
    /\ passCalls = <<1, 0, 1>>
    /\ skipLog = << <<"b",".","x","y","z">> >>
    /\ runCalls = [NoCalls EXCEPT !["upload"] = 2, !["vs_create"] = 1,
                                  !["assistant_create"] = 1]
    /\ totalCalls = [NoCalls EXCEPT !["upload"] = 2, !["vs_create"] = 1,
                                    !["assistant_create"] = 1]
    /\ failedCalls = NoCalls
    /\ passFault = "none"
    /\ startDisk = [exists |-> FALSE, content |-> EmptyConfig]

UserTexts == {"What is the refund policy?", "And for returns?"}
Replies == {"30 days.", "See section 4."}
RunStatuses == {"queued", "in_progress", "completed", "failed"}

UserTurn(text) == [role |-> "user", content |-> text]
AssistantTurn(text) == [role |-> "assistant", content |-> text]

\* a session block that sets up the history on every script run
SessionHistoryReset == <<>>

\* lines 90-95: the history is created empty with the thread, on the first
\* script run of the session only
SessionHistory == IF has_thread THEN chat_history ELSE <<>>

SessionTurnSub == SubSeq(turnSub, 1, Len(SessionHistory))

\* messages.data[0].content[0].text.value: the listing is newest first
MostRecentMessage == thread[Len(thread)].content

SetLast(seq, v) == [seq EXCEPT ![Len(seq)] = v]

ChatInit ==
    /\ Provisioned
    /\ NoSession
    /\ SidebarUntouched

\* A script run with no chat input: the session block, then the display.
RenderNoInput ==
    /\ pPc = "cached"
    /\ cPc = "Idle"
    /\ has_thread' = TRUE
    /\ chat_history' = SessionHistory
    /\ turnSub' = SessionTurnSub
    /\ fault' = "none"
    /\ UNCHANGED <<thread, cPc, runStatus, lastPoll, inputs, outcome, stepCalls>>
    /\ UNCHANGED <<provVars, fmVars>>

\* threads.create raises on the first script run: no session state is set.
ThreadCreateRaises ==
    /\ pPc = "cached"
    /\ cPc = "Idle"
    /\ ~has_thread
    /\ fault' = "thread"
    /\ UNCHANGED <<has_thread, chat_history, thread, cPc, runStatus, lastPoll,
                   inputs, turnSub, outcome, stepCalls>>
    /\ UNCHANGED <<provVars, fmVars>>

\* The user submits text: the user turn is appended, messages.create and
\* runs.create succeed, and the handler enters the poll loop.
Submit(text) ==
    /\ pPc = "cached"
    /\ cPc = "Idle"
    /\ Len(inputs) < MaxMsgs
    /\ has_thread' = TRUE
    /\ chat_history' = Append(SessionHistory, UserTurn(text))
    /\ turnSub' = Append(SessionTurnSub, Len(inputs) + 1)
    /\ inputs' = Append(inputs, text)
    /\ outcome' = Append(outcome, "awaiting")
    /\ thread' = Append(thread, UserTurn(text))
    /\ runStatus' = "queued"
    /\ lastPoll' = "none"
    /\ stepCalls' = [send |-> 1, run |-> 1, fetch |-> 0]
    /\ fault' = "none"
    /\ cPc' = "AwaitingRun"
    /\ UNCHANGED <<provVars, fmVars>>

\* The same, messages.create raising: the script run ends there.
SubmitSendRaises(text) ==
    /\ pPc = "cached"
    /\ cPc = "Idle"
    /\ Len(inputs) < MaxMsgs
    /\ has_thread' = TRUE
    /\ chat_history' = Append(SessionHistory, UserTurn(text))
    /\ turnSub' = Append(SessionTurnSub, Len(inputs) + 1)
    /\ inputs' = Append(inputs, text)
    /\ outcome' = Append(outcome, "raised")
    /\ stepCalls' = [send |-> 1, run |-> 0, fetch |-> 0]
    /\ fault' = "send"
    /\ UNCHANGED <<thread, cPc, runStatus, lastPoll>>
    /\ UNCHANGED <<provVars, fmVars>>

\* The same, runs.create raising after the message was sent.
SubmitRunRaises(text) ==
    /\ pPc = "cached"
    /\ cPc = "Idle"
    /\ Len(inputs) < MaxMsgs
    /\ has_thread' = TRUE
    /\ chat_history' = Append(SessionHistory, UserTurn(text))
    /\ turnSub' = Append(SessionTurnSub, Len(inputs) + 1)
    /\ inputs' = Append(inputs, text)
    /\ outcome' = Append(outcome, "raised")
    /\ thread' = Append(thread, UserTurn(text))
    /\ stepCalls' = [send |-> 1, run |-> 1, fetch |-> 0]
    /\ fault' = "run"
    /\ UNCHANGED <<cPc, runStatus, lastPoll>>
    /\ UNCHANGED <<provVars, fmVars>>

\* The provider works on the run: it starts it, and ends it completed (the
\* assistant's message is then in the thread) or failed.  Nothing obliges it
\* to.
ProviderRunProgress ==
    /\ \/ /\ runStatus = "queued"
          /\ runStatus' = "in_progress"
          /\ UNCHANGED thread
       \/ /\ runStatus = "in_progress"
          /\ runStatus' = "failed"
          /\ UNCHANGED thread
       \/ /\ runStatus = "in_progress"
          /\ runStatus' = "completed"
          /\ \E r \in Replies : thread' = Append(thread, AssistantTurn(r))
    /\ UNCHANGED <<has_thread, chat_history, cPc, lastPoll, fault, inputs,
                   turnSub, outcome, stepCalls>>
    /\ UNCHANGED <<provVars, fmVars>>

\* a poll loop that gives up on a run that has not completed
PollNotCompletedGivesUp ==
    /\ cPc = "AwaitingRun"
    /\ runStatus # "completed"
    /\ lastPoll' = runStatus
    /\ cPc' = "Idle"
    /\ UNCHANGED <<has_thread, chat_history, thread, runStatus, fault, inputs,
                   turnSub, outcome, stepCalls>>
    /\ UNCHANGED <<provVars, fmVars>>

\* One turn of the while loop: runs.retrieve returns a status other than
\* "completed", the handler sleeps and polls again.
PollNotCompleted ==
    /\ cPc = "AwaitingRun"
    /\ runStatus # "completed"
    /\ lastPoll' = runStatus
    /\ UNCHANGED <<has_thread, chat_history, thread, cPc, runStatus, fault,
                   inputs, turnSub, outcome, stepCalls>>
    /\ UNCHANGED <<provVars, fmVars>>

\* a poll that catches the error and polls again
PollRaisesRetried ==
    /\ cPc = "AwaitingRun"
    /\ fault' = "poll"
    /\ UNCHANGED <<has_thread, chat_history, thread, cPc, runStatus, lastPoll,
                   inputs, turnSub, outcome, stepCalls>>
    /\ UNCHANGED <<provVars, fmVars>>

\* runs.retrieve raises: the script run ends there.
PollRaises ==
    /\ cPc = "AwaitingRun"
    /\ fault' = "poll"
    /\ outcome' = SetLast(outcome, "raised")
    /\ cPc' = "Idle"
    /\ UNCHANGED <<has_thread, chat_history, thread, runStatus, lastPoll,
                   inputs, turnSub, stepCalls>>
    /\ UNCHANGED <<provVars, fmVars>>

\* runs.retrieve returns "completed": the loop breaks, messages.list is
\* fetched, and the most recent message is appended as the assistant turn.
PollCompleted ==
    /\ cPc = "AwaitingRun"
    /\ runStatus = "completed"
    /\ lastPoll' = "completed"
    /\ chat_history' = Append(chat_history, AssistantTurn(MostRecentMessage))
    /\ turnSub' = Append(turnSub, Len(inputs))
    /\ outcome' = SetLast(outcome, "answered")
    /\ stepCalls' = [stepCalls EXCEPT !.fetch = @ + 1]
    /\ cPc' = "Idle"
    /\ UNCHANGED <<has_thread, thread, runStatus, fault, inputs>>
    /\ UNCHANGED <<provVars, fmVars>>

\* The same, messages.list raising after the loop broke.
PollCompletedFetchRaises ==
    /\ cPc = "AwaitingRun"
    /\ runStatus = "completed"
    /\ lastPoll' = "completed"
    /\ stepCalls' = [stepCalls EXCEPT !.fetch = @ + 1]
    /\ fault' = "fetch"
    /\ outcome' = SetLast(outcome, "raised")
    /\ cPc' = "Idle"
    /\ UNCHANGED <<has_thread, chat_history, thread, runStatus, inputs, turnSub>>
    /\ UNCHANGED <<provVars, fmVars>>

ChatNext ==
    \/ RenderNoInput
    \/ ThreadCreateRaises
    \/ \E text \in UserTexts : Submit(text)
    \/ \E text \in UserTexts : SubmitSendRaises(text)
    \/ \E text \in UserTexts : SubmitRunRaises(text)
    \/ ProviderRunProgress
    \/ PollNotCompleted
    \/ PollRaises
    \/ PollCompleted
    \/ PollCompletedFetchRaises

ChatSpec == ChatInit /\ [][ChatNext]_vars

\* The handler's thread keeps running its loop: once the provider reports
\* the run completed, the poll that sees it is eventually made.
ChatLiveSpec ==
    ChatInit /\ [][ChatNext]_vars
             /\ WF_vars(PollCompleted \/ PollCompletedFetchRaises)


\* --------------------------------------------- conversation session, claims
IsUserTurn(t) == t.role = "user"
UserTurnsUpTo(i) == Len(SelectSeq(SubSeq(chat_history, 1, i), IsUserTurn))
AssistantTurnsOf(k) ==
    { i \in DOMAIN chat_history :
        chat_history[i].role = "assistant" /\ turnSub[i] = k }

HistoryShape ==
    /\ Len(turnSub) = Len(chat_history)
    /\ Len(outcome) = Len(inputs)
    \* exactly N user turns, the submitted messages in submission order
    /\ SelectSeq(chat_history, IsUserTurn)
          = [k \in DOMAIN inputs |-> UserTurn(inputs[k])]
    /\ \A i \in DOMAIN chat_history :
          chat_history[i].role = "user" => turnSub[i] = UserTurnsUpTo(i)
    \* an assistant turn sits right after the user turn of its submission
    /\ \A i \in DOMAIN chat_history :
          chat_history[i].role = "assistant" =>
              /\ i > 1
              /\ chat_history[i - 1].role = "user"
              /\ turnSub[i - 1] = turnSub[i]
    \* one assistant turn for each run handled to completion, none otherwise
    /\ \A k \in DOMAIN outcome :
          Cardinality(AssistantTurnsOf(k)) =
              IF outcome[k] = "answered" THEN 1 ELSE 0
    \* a submission without its assistant turn is the one being awaited, or
    \* one whose handling raised
    /\ \A k \in DOMAIN outcome :
          outcome[k] = "awaiting" => k = Len(outcome) /\ cPc = "AwaitingRun"

HistoryGrows ==
    /\ Len(chat_history) <= Len(chat_history')
    /\ SubSeq(chat_history', 1, Len(chat_history)) = chat_history

\* C4: the session's chat history is append-only and ordered: turns are never
\* removed, reordered or modified; after N submissions it holds the N user
\* turns in submission order and one assistant turn for each run handled to
\* completion, right after the user turn that started the run.
C4_HistoryAppendOnlyOrdered == [](HistoryShape) /\ [][HistoryGrows]_vars

\* three submissions, the second one raised, the others were answered
C4_Witness ==
    /\ outcome = <<"answered", "raised", "answered">>
    /\ Len(chat_history) = 5
    /\ cPc = "Idle"

\* C6: Idle -> AwaitingRun -> Idle.  After a submission the handler stays in
\* AwaitingRun for as long as the polled status is not "completed"; it leaves
\* without an error exactly when a poll reports "completed", appending the
\* most recent message as the assistant turn; once the run is completed the
\* session eventually returns to Idle; a run that never completes keeps it in
\* AwaitingRun.  (A call that raises ends the handler: C9.)
C6_AwaitingRunUntilCompleted ==
    /\ [][(cPc = "Idle" /\ cPc' = "AwaitingRun") =>
            /\ Len(inputs') = Len(inputs) + 1
            /\ chat_history'[Len(chat_history')] = UserTurn(inputs'[Len(inputs')])
            /\ lastPoll' = "none"]_vars
    /\ [][(cPc = "AwaitingRun" /\ runStatus # "completed" /\ fault' = "none")
            => cPc' = "AwaitingRun"]_vars
    /\ [][(cPc = "AwaitingRun" /\ cPc' = "Idle" /\ fault' = "none") =>
            /\ runStatus = "completed"
            /\ lastPoll' = "completed"
            /\ chat_history' =
                  Append(chat_history, AssistantTurn(thread[Len(thread)].content))
            /\ thread[Len(thread)].role = "assistant"]_vars
    /\ [][(cPc = "AwaitingRun" /\ lastPoll' = "completed") => cPc' = "Idle"]_vars
    /\ (cPc = "AwaitingRun" /\ runStatus = "completed") ~> (cPc = "Idle")
    /\ []((cPc = "AwaitingRun" /\ [](runStatus # "completed" /\ fault = "none"))
            => [](cPc = "AwaitingRun"))

\* back in Idle after two submissions, each polled to completion
C6_Witness ==
    /\ cPc = "Idle"
    /\ outcome = <<"answered", "answered">>
    /\ lastPoll = "completed"
    /\ chat_history[4].role = "assistant"

\* C9: a transport error in the send, run-create, poll or fetch step ends the
\* handler at once: no step is made twice for a submission (the poll repeats
\* only after a successful response that is not "completed"), the user turn
\* appended before the send stays the last turn, and the submission gets no
\* assistant turn.
C9_TransportErrorPropagates ==
    /\ \A k \in {"send", "run", "fetch"} : stepCalls[k] <= 1
    /\ cPc = "AwaitingRun" =>
          /\ fault = "none"
          /\ lastPoll \in {"none"} \cup (RunStatuses \ {"completed"})
    /\ fault \in {"send", "run", "poll", "fetch"} =>
          /\ cPc = "Idle"
          /\ inputs # <<>>
          /\ chat_history # <<>>
          /\ chat_history[Len(chat_history)] = UserTurn(inputs[Len(inputs)])
          /\ turnSub[Len(turnSub)] = Len(inputs)
          /\ AssistantTurnsOf(Len(inputs)) = {}
          /\ stepCalls.send = 1
          /\ stepCalls.run = IF fault = "send" THEN 0 ELSE 1
          /\ stepCalls.fetch = IF fault = "fetch" THEN 1 ELSE 0
          /\ fault = "fetch" => lastPoll = "completed"

\* the second submission's poll raised after a poll that was not completed
C9_Witness ==
    /\ fault = "poll"
    /\ lastPoll = "in_progress"
    /\ outcome = <<"answered", "raised">>
    /\ Len(chat_history) = 3


\* ============================================================ file manager
\* the provisioning state the sidebar leaves alone
provRest == <<folder, disk, pPc, config, file_ids, idx, vs_id, assistants,
              result, runs, passCalls, skipLog, runCalls, totalCalls,
              failedCalls, passFault, startDisk>>

\* vector_store_id, as line 82 unpacks it
vector_store_id == result[2]

\* files.data of vector_stores.files.list: the ids attached to the store
listing == vstores[vector_store_id]

\* the listing resolved against nothing: no name counts as present
existing_filenames_none == {}

\* { files.retrieve(f.id).filename for f in files.data }
existing_filenames == { files[listing[i]] : i \in DOMAIN listing }

\* what the uploader lets the user pick: type=[ext[1:] for ext in
\* ALLOWED_EXTENSIONS] (b.xyz, on offer, is refused by the widget)
UploadNames ==
    { n \in { <<"a",".","p","d","f">>, <<"c",".","m","d">>,
              <<"n",".","c","s","v">>, <<"b",".","x","y","z">> } :
        Lower(Suffix(n)) \in ALLOWED_EXTENSIONS }

\* st.file_uploader(key=f"uploader_{upload_key}"): the files selected in the
\* widget of that key; a widget with a new key starts empty
uploaded_files == IF widget.key = upload_key THEN widget.files ELSE <<>>

NotPresent(name) == name \notin existing_filenames

\* new_files: the selected files whose name is not in existing_filenames
new_files == SelectSeq(uploaded_files, NotPresent)

\* a handler that leaves the key as it is
SameUploadKey == upload_key

\* upload_key + 1
NextUploadKey == upload_key + 1

WithoutFile(seq, id) == SelectSeq(seq, LAMBDA x : x # id)

FilesInit ==
    /\ Provisioned
    /\ SessionStarted
    /\ SidebarUntouched

\* The user picks files in the uploader shown by the last script run; the
\* widget change makes the script run again.
UserSelectsFiles(sel) ==
    /\ fPc = "Idle"
    /\ clicks < MaxClicks
    /\ sel # <<>>
    /\ widget' = [key |-> upload_key, files |-> sel]
    /\ clicks' = clicks + 1
    /\ selections' = selections + 1
    /\ button' = NoId
    /\ fPc' = "Run"
    /\ UNCHANGED <<upload_key, ffault, lastOp, uploadCalls, lastBatch,
                   deleteCalls, lastDelete, handled, uploadRaised>>
    /\ UNCHANGED <<files, vstores, provRest, chatVars>>

\* The user picks a file of the listing in the selectbox and clicks "Delete
\* selected file".
UserClicksDelete(id) ==
    /\ fPc = "Idle"
    /\ clicks < MaxClicks
    /\ listing # <<>>
    /\ \E i \in DOMAIN listing : listing[i] = id
    /\ clicks' = clicks + 1
    /\ button' = id
    /\ fPc' = "Run"
    /\ UNCHANGED <<upload_key, widget, ffault, lastOp, uploadCalls, lastBatch,
                   deleteCalls, lastDelete, selections, handled, uploadRaised>>
    /\ UNCHANGED <<files, vstores, provRest, chatVars>>

\* Upload handler, new files among the selection: upload_and_poll stores them
\* and attaches them to the vector store; the key is incremented and the
\* script rerun.
UploadNewFiles ==
    /\ fPc \in {"Run", "Rerun"}
    /\ uploaded_files # <<>>
    /\ new_files # <<>>
    /\ uploadCalls' = uploadCalls + 1
    /\ lastBatch' = [selection |-> uploaded_files, names |-> new_files]
    /\ files' = files \o new_files
    /\ vstores' = [vstores EXCEPT ![vector_store_id] =
                      @ \o [k \in DOMAIN new_files |-> Len(files) + k]]
    /\ upload_key' = NextUploadKey
    /\ handled' = handled + 1
    /\ lastOp' = "upload"
    /\ ffault' = "none"
    /\ button' = NoId
    /\ fPc' = "Rerun"
    /\ UNCHANGED <<widget, deleteCalls, lastDelete, clicks, selections,
                   uploadRaised>>
    /\ UNCHANGED <<provRest, chatVars>>

\* The same, upload_and_poll raising: the script run ends before the key is
\* touched, the selection stays in the widget.
UploadRaises ==
    /\ fPc \in {"Run", "Rerun"}
    /\ uploaded_files # <<>>
    /\ new_files # <<>>
    /\ uploadCalls' = uploadCalls + 1
    /\ lastBatch' = [selection |-> uploaded_files, names |-> new_files]
    /\ uploadRaised' = TRUE
    /\ ffault' = "upload"
    /\ lastOp' = "none"
    /\ button' = NoId
    /\ fPc' = "Idle"
    /\ UNCHANGED <<upload_key, widget, deleteCalls, lastDelete, clicks,
                   selections, handled>>
    /\ UNCHANGED <<files, vstores, provRest, chatVars>>

\* Upload handler, every selected name already present: no remote call; the
\* key is incremented and the script rerun all the same.
AllAlreadyUploaded ==
    /\ fPc \in {"Run", "Rerun"}
    /\ uploaded_files # <<>>
    /\ new_files = <<>>
    /\ upload_key' = NextUploadKey
    /\ handled' = handled + 1
    /\ lastOp' = "duplicate"
    /\ ffault' = "none"
    /\ button' = NoId
    /\ fPc' = "Rerun"
    /\ UNCHANGED <<widget, uploadCalls, lastBatch, deleteCalls, lastDelete,
                   clicks, selections, uploadRaised>>
    /\ UNCHANGED <<files, vstores, provRest, chatVars>>

\* a delete that also removes the file object from provider storage
DeleteSelectedFileEverywhere ==
    /\ fPc \in {"Run", "Rerun"}
    /\ uploaded_files = <<>>
    /\ button # NoId
    /\ deleteCalls' = deleteCalls + 1
    /\ lastDelete' = [vs |-> vector_store_id, file |-> button]
    /\ vstores' = [vstores EXCEPT ![vector_store_id] = WithoutFile(@, button)]
    /\ files' = [files EXCEPT ![button] = <<>>]
    /\ lastOp' = "delete"
    /\ ffault' = "none"
    /\ button' = NoId
    /\ fPc' = "Rerun"
    /\ UNCHANGED <<upload_key, widget, uploadCalls, lastBatch, clicks,
                   selections, handled, uploadRaised>>
    /\ UNCHANGED <<provRest, chatVars>>

\* Delete handler: vector_stores.files.delete(vector_store_id, file id), then
\* the script is rerun.
DeleteSelectedFile ==
    /\ fPc \in {"Run", "Rerun"}
    /\ uploaded_files = <<>>
    /\ button # NoId
    /\ deleteCalls' = deleteCalls + 1
    /\ lastDelete' = [vs |-> vector_store_id, file |-> button]
    /\ vstores' = [vstores EXCEPT ![vector_store_id] = WithoutFile(@, button)]
    /\ lastOp' = "delete"
    /\ ffault' = "none"
    /\ button' = NoId
    /\ fPc' = "Rerun"
    /\ UNCHANGED <<upload_key, widget, uploadCalls, lastBatch, clicks,
                   selections, handled, uploadRaised>>
    /\ UNCHANGED <<files, provRest, chatVars>>

\* The same, the delete call raising.
DeleteRaises ==
    /\ fPc \in {"Run", "Rerun"}
    /\ uploaded_files = <<>>
    /\ button # NoId
    /\ deleteCalls' = deleteCalls + 1
    /\ lastDelete' = [vs |-> vector_store_id, file |-> button]
    /\ ffault' = "delete"
    /\ lastOp' = "none"
    /\ button' = NoId
    /\ fPc' = "Idle"
    /\ UNCHANGED <<upload_key, widget, uploadCalls, lastBatch, clicks,
                   selections, handled, uploadRaised>>
    /\ UNCHANGED <<files, vstores, provRest, chatVars>>

\* A script run with nothing selected and no button clicked: the sidebar is
\* drawn from the listing and the run ends.
RenderSidebar ==
    /\ fPc \in {"Run", "Rerun"}
    /\ uploaded_files = <<>>
    /\ button = NoId
    /\ ffault' = "none"
    /\ fPc' = "Idle"
    /\ UNCHANGED <<upload_key, widget, button, lastOp, uploadCalls, lastBatch,
                   deleteCalls, lastDelete, clicks, selections, handled,
                   uploadRaised>>
    /\ UNCHANGED <<files, vstores, provRest, chatVars>>

FilesNext ==
    \/ \E sel \in Arrangements(UploadNames, Cardinality(UploadNames)) :
          UserSelectsFiles(sel)
    \/ \E id \in DOMAIN files : UserClicksDelete(id)
    \/ UploadNewFiles
    \/ UploadRaises
    \/ AllAlreadyUploaded
    \/ DeleteSelectedFile
    \/ DeleteRaises
    \/ RenderSidebar

FilesSpec == FilesInit /\ [][FilesNext]_vars


\* ----------------------------------------------------- file manager, claims
\* the filenames of the files attached to the vector store, read off the
\* provider's state
AttachedNames ==
    { files[vstores[result[2]][i]] : i \in DOMAIN vstores[result[2]] }

SelectionPending == widget.key = upload_key /\ widget.files # <<>>

NotAttached(name) == name \notin AttachedNames

\* C5: the batch passed to upload_and_poll holds no file whose name is the
\* filename of a file attached to the vector store (it is the rest of the
\* selection), and when every selected name is already present no upload
\* call is made.
C5_NoReuploadByFilename ==
    /\ [][uploadCalls' # uploadCalls =>
            /\ uploadCalls' = uploadCalls + 1
            /\ LET batch == lastBatch'
               IN /\ batch.selection = widget.files
                  /\ batch.names # <<>>
                  /\ \A k \in DOMAIN batch.names :
                        batch.names[k] \notin AttachedNames
                  /\ batch.names = SelectSeq(widget.files, NotAttached)]_vars
    /\ [][(\A k \in DOMAIN widget.files : widget.files[k] \in AttachedNames)
            => uploadCalls' = uploadCalls]_vars

\* a.pdf (attached) and n.csv selected together: only n.csv was uploaded
C5_Witness ==
    /\ uploadCalls = 1
    /\ lastBatch.selection = << <<"a",".","p","d","f">>, <<"n",".","c","s","v">> >>
    /\ lastBatch.names = << <<"n",".","c","s","v">> >>
    /\ Len(files) = 3
    /\ vstores[result[2]] = <<1, 2, 3>>

\* C7: deleting the selected file makes one delete call, for that file's id
\* and scoped to the vector store; the listing the rerun reads no longer holds
\* the file and still holds every other file, and provider file storage is as
\* it was.
C7_DeleteOnlyDetaches ==
    /\ [][(deleteCalls' # deleteCalls /\ ffault' = "none") =>
            /\ deleteCalls' = deleteCalls + 1
            /\ lastDelete' = [vs |-> result[2], file |-> button]
            /\ \E i \in DOMAIN vstores[result[2]] : vstores[result[2]][i] = button
            /\ \A i \in DOMAIN vstores'[result[2]] :
                  vstores'[result[2]][i] # button
            /\ vstores'[result[2]] =
                  SelectSeq(vstores[result[2]], LAMBDA x : x # button)
            /\ Len(vstores'[result[2]]) = Len(vstores[result[2]]) - 1
            /\ files' = files
            /\ fPc' = "Rerun"]_vars
    /\ [][(fPc = "Rerun" /\ lastOp = "delete") =>
            /\ deleteCalls' = deleteCalls
            /\ vstores' = vstores
            /\ files' = files
            /\ fPc' = "Idle"]_vars
    /\ []((fPc = "Rerun" /\ lastOp = "delete") =>
            \A i \in DOMAIN vstores[result[2]] :
                vstores[result[2]][i] # lastDelete.file)

\* a.pdf was deleted: c.md is still listed, both files are still in storage
C7_Witness ==
    /\ fPc = "Rerun"
    /\ lastOp = "delete"
    /\ deleteCalls = 1
    /\ lastDelete = [vs |-> 1, file |-> 1]
    /\ vstores[result[2]] = <<2>>
    /\ files = << <<"a",".","p","d","f">>, <<"c",".","m","d">> >>

====
